---- MODULE Spec2Model ----
(***************************************************************************)
(* Model of the offline LST-1 + MAGIC event coincidence search             *)
(* (magicctapipe/scripts/lst1_magic/lst1_magic_event_coincidence.py,       *)
(* function event_coincidence) and of get_stereo_events                    *)
(* (magicctapipe/io/io.py).                                                *)
(*                                                                         *)
(* All times are integer nanoseconds.  A data frame is a sequence of       *)
(* records.  The opaque shower parameters of an event (and its timestamp   *)
(* column) are represented by the field "payload" = <<tel_id, event id>>,  *)
(* i.e. two rows have equal parameter columns iff they stem from the same  *)
(* input event.  A missing value (NaN) of a column is the empty sequence,  *)
(* a present value v is <<v>>.                                             *)
(***************************************************************************)
EXTENDS Integers, Sequences, FiniteSets, TLC

\* ------------------------------------------------------------------------
\* Bounds of the explored inputs
\* ------------------------------------------------------------------------
MaxLst == 2      \* at most this many LST-1 (primary) events
MaxMagic == 2    \* at most this many MAGIC (secondary) event ids
MaxTie == 7      \* the long scans have MaxTie + 1 time offsets
MaxRaw == 3      \* at most this many rows in an LST-1 data file
MaxRows == 3     \* at most this many rows in a table of shower events

\* The final digit of timestamps, TIME_ACCURACY = 100 ns: the step of the
\* offset grid.
TIME_ACCURACY == 100

\* Telescope ids of TEL_NAMES
TelLst == 1
TelM1 == 2
TelM2 == 3

\* Input values explored
LstTimes == {0, 100, 101}
MagicTimes == {0, 200, 201, 401}
Windows == {0, 100}
OffsetStarts == {100}
OffsetStops == {400}
ObsIdLst == 1
ObsIdMagic == 2

VARIABLES
  input_files,        \* the MAGIC data files of the input directory, sorted
  timestamps_lst,     \* the LST-1 timestamps [ns], in (obs_id, event_id) order
  event_data_magic,   \* the MAGIC events, sorted by (event_id_magic, tel_id)
  window_half_width,  \* config: coincidence window half width [ns]
  offset_start,       \* config: time_offset.start [ns]
  offset_stop,        \* config: time_offset.stop [ns]
  pc,                 \* position in event_coincidence
  tel_queue,          \* telescope ids the loop has still to visit
  tel_id,             \* telescope id of the current iteration
  df_magic,           \* MAGIC events of tel_id kept by the window pre-filter
  n_events_magic,     \* their number
  n_coincidences,     \* scan result: one count per time offset
  offset_at_max,      \* <<sum, count>> of the maximising offsets (their mean)
  average_offset,     \* the refined offset [ns]
  mask,               \* definitive match mask: set of <<i, j>> (True cells)
  event_data,         \* the merged event table
  features,           \* the feature summary table
  profiles,           \* the scan profile: one column per processed telescope
  output,             \* the tables the output file holds, in the order written
  arg,                \* a function called on its own: its name and arguments
  ret                 \* what that call returned or raised

vars == <<input_files, timestamps_lst, event_data_magic, window_half_width, offset_start,
          offset_stop, pc, tel_queue, tel_id, df_magic, n_events_magic,
          n_coincidences, offset_at_max, average_offset, mask, event_data, features,
          profiles, output, arg, ret>>

inputs == <<input_files, timestamps_lst, event_data_magic, window_half_width,
            offset_start, offset_stop, arg, ret>>

\* ------------------------------------------------------------------------
\* Helpers
\* ------------------------------------------------------------------------
Range(s) == {s[k] : k \in DOMAIN s}

RECURSIVE SumSet(_, _)
\* sum of F[x] over the finite set S
SumSet(S, F) ==
  IF S = {} THEN 0
  ELSE LET x == CHOOSE y \in S : TRUE IN F[x] + SumSet(S \ {x}, F)

Max(S) == CHOOSE x \in S : \A y \in S : y <= x
Min(S) == CHOOSE x \in S : \A y \in S : x <= y

\* np.round / ndarray.round of the float num/den (den > 0): round half to even
RoundHalfEven(num, den) ==
  LET q == num \div den
      r == num % den
  IN  IF 2 * r < den THEN q
      ELSE IF 2 * r > den THEN q + 1
      ELSE IF q % 2 = 0 THEN q ELSE q + 1

\* ------------------------------------------------------------------------
\* The offset grid: np.arange(start, stop, step), lines 142-148
\* ------------------------------------------------------------------------
NOffsets(start, stop) ==
  IF stop <= start THEN 0
  ELSE ((stop - start - 1) \div TIME_ACCURACY) + 1

TimeOffsets(start, stop) ==
  [k \in 1..NOffsets(start, stop) |-> start + (k - 1) * TIME_ACCURACY]

time_offsets == TimeOffsets(offset_start, offset_stop)

\* ------------------------------------------------------------------------
\* The coincidence test, lines 221-227 and 264-270: a MAGIC event at t2 is
\* in the window of the LST-1 event at t1 shifted by the offset, edges
\* included.
\* ------------------------------------------------------------------------
CoincidentStrict(t1, t2, offset, window) ==
  /\ t2 > t1 + offset - window
  /\ t2 < t1 + offset + window

Coincident(t1, t2, offset, window) ==
  /\ t2 >= t1 + offset - window
  /\ t2 <= t1 + offset + window

\* The mask of one offset: the True cells <<i, j>> over all LST-1 events i
\* and all pre-filtered MAGIC events j
CoincidenceMask(ts_lst, dfm, offset, window) ==
  {c \in (DOMAIN ts_lst) \X (DOMAIN dfm) :
     Coincident(ts_lst[c[1]], dfm[c[2]].ts, offset, window)}

\* ------------------------------------------------------------------------
\* Inputs
\* ------------------------------------------------------------------------
\* event_id_lst of the i-th LST-1 event (the table is sorted by it)
EventIdLst(i) == 2 * i + 1

\* The MAGIC showers: the k-th one has event_id_magic = k, is seen by
\* MAGIC-I only, by MAGIC-II only or by both (a MAGIC-stereo event, both
\* rows carrying the same hardware-trigger time)
Kinds == {<<TelM1>>, <<TelM2>>, <<TelM1, TelM2>>}

RECURSIVE MagicRows(_, _)
\* the rows of showers k..Len(sh), sorted by (event_id_magic, tel_id)
MagicRows(sh, k) ==
  IF k > Len(sh) THEN <<>>
  ELSE [n \in 1..Len(sh[k][1]) |->
          [event_id_magic |-> k, tel_id |-> sh[k][1][n], ts |-> sh[k][2]]]
       \o MagicRows(sh, k + 1)

\* The data files of the input directory: one per MAGIC telescope with
\* events, in the order of their names (MAGIC-I before MAGIC-II)
FilesOf(rows) ==
  LET OfM1(m) == m.tel_id = TelM1
      OfM2(m) == m.tel_id = TelM2
      f1 == SelectSeq(rows, OfM1)
      f2 == SelectSeq(rows, OfM2)
  IN  (IF f1 = <<>> THEN <<>> ELSE <<f1>>) \o (IF f2 = <<>> THEN <<>> ELSE <<f2>>)

\* Without any MAGIC event the directory holds no file or one file without
\* events
InitInputs(lst, showers, w, start, stop) ==
  /\ timestamps_lst = lst
  /\ IF showers = <<>> THEN input_files \in {<<>>, << <<>> >>}
     ELSE input_files = FilesOf(MagicRows(showers, 1))
  /\ event_data_magic = <<>>
  /\ window_half_width = w
  /\ offset_start = start
  /\ offset_stop = stop

\* np.unique of the tel_id index level, line 169
TelIds(edm) ==
  LET S == {edm[k].tel_id : k \in DOMAIN edm}
  IN  IF S = {} THEN <<>>
      ELSE IF Cardinality(S) = 1 THEN <<Min(S)>>
      ELSE <<Min(S), Max(S)>>

NoValue == << >>

InitState ==
  /\ pc = "load"
  /\ tel_queue = <<>>
  /\ tel_id = 0
  /\ df_magic = <<>>
  /\ n_events_magic = 0
  /\ n_coincidences = <<>>
  /\ offset_at_max = <<0, 1>>
  /\ average_offset = 0
  /\ mask = {}
  /\ event_data = <<>>
  /\ features = <<>>
  /\ profiles = <<>>
  /\ output = <<>>
  /\ arg = NoValue
  /\ ret = NoValue

\* Short streams: up to MaxLst LST-1 events in any time order, up to
\* MaxMagic MAGIC showers in time order, a scan of three offsets
InitShort ==
  \E n \in 1..MaxLst : \E lst \in [1..n -> LstTimes] :
  \E m \in 0..MaxMagic : \E showers \in [1..m -> Kinds \X MagicTimes] :
  \E w \in Windows, start \in OffsetStarts, stop \in OffsetStops :
    /\ \A a, b \in 1..n : a # b => lst[a] # lst[b]
    /\ \A a, b \in 1..m : a < b => showers[a][2] <= showers[b][2]
    /\ InitInputs(lst, showers, w, start, stop)

RECURSIVE SortedSeq(_)
SortedSeq(S) == IF S = {} THEN <<>> ELSE <<Min(S)>> \o SortedSeq(S \ {Min(S)})

\* Long scans: one LST-1 event at 0 and MAGIC-I events at some of the times
\* LongTimes, a scan of MaxTie + 1 offsets from 0 on
LongTimes == {TIME_ACCURACY * k : k \in 0..MaxTie} \cup {50, 1000}
LongWindows == {7, 57}

InitLong ==
  \E T \in SUBSET LongTimes : \E w \in LongWindows :
    InitInputs(<<0>>, [k \in 1..Cardinality(T) |-> <<<<TelM1>>, SortedSeq(T)[k]>>],
               w, 0, TIME_ACCURACY * (MaxTie + 1))

\* A wide scan: three LST-1 events 100 us apart and three MAGIC-I events
\* 6500 ns before them, a scan of 200 offsets from -10 us to 10 us
EndToEndT == {0, 1000000}
EndToEndStep == 100000
EndToEndShift == -6500
EndToEndStart == -10000
EndToEndStop == 10000
EndToEndWindow == 300

EndToEndLst(T) == [i \in 1..3 |-> T + (i - 1) * EndToEndStep]

EndToEndMagic(T) ==
  [j \in 1..3 |-> <<<<TelM1>>, T + EndToEndShift + (j - 1) * EndToEndStep>>]

InitEndToEnd ==
  \E T \in EndToEndT :
    InitInputs(EndToEndLst(T), EndToEndMagic(T), EndToEndWindow, EndToEndStart,
               EndToEndStop)

Init ==
  /\ InitShort \/ InitLong \/ InitEndToEnd
  /\ InitState

\* ------------------------------------------------------------------------
\* Loading the MAGIC data files: load_magic_data_files, io.py lines 389-451,
\* called at line 114
\* ------------------------------------------------------------------------
RECURSIVE Concat(_)
\* pd.concat of the tables read from the files, io.py lines 422-429
Concat(files) ==
  IF files = <<>> THEN <<>> ELSE Head(files) \o Concat(Tail(files))

\* the order of the index (event_id_magic, tel_id) of one run
LessInput(a, b) ==
  \/ a.event_id_magic < b.event_id_magic
  \/ (a.event_id_magic = b.event_id_magic /\ a.tel_id < b.tel_id)

RECURSIVE InsertInput(_, _)
InsertInput(s, r) ==
  IF s = <<>> THEN <<r>>
  ELSE IF LessInput(r, Head(s)) THEN <<r>> \o s
  ELSE <<Head(s)>> \o InsertInput(Tail(s), r)

RECURSIVE SortInput(_)
\* set_index and sort_index, io.py lines 435-436
SortInput(s) ==
  IF s = <<>> THEN <<>>
  ELSE InsertInput(SortInput(SubSeq(s, 1, Len(s) - 1)), s[Len(s)])

\* io.py lines 409-412: no file matches dl1_*.h5: FileNotFoundError, raised
\* out of event_coincidence
LoadMagicNoFileGoesOn ==
  /\ pc = "load"
  /\ input_files = <<>>
  /\ pc' = "loop"
  /\ UNCHANGED <<inputs, tel_queue, tel_id, df_magic, n_events_magic, n_coincidences,
                 offset_at_max, average_offset, mask, event_data, features,
                 profiles, output>>

LoadMagicNoFile ==
  /\ pc = "load"
  /\ input_files = <<>>
  /\ pc' = "crashed"
  /\ UNCHANGED <<inputs, tel_queue, tel_id, df_magic, n_events_magic, n_coincidences,
                 offset_at_max, average_offset, mask, event_data, features,
                 profiles, output>>

\* io.py lines 417-436 and line 169 of the script: the files are read, the
\* table is sorted and the loop is set up over its telescope ids
LoadMagic ==
  /\ pc = "load"
  /\ input_files # <<>>
  /\ event_data_magic' = SortInput(Concat(input_files))
  /\ tel_queue' = TelIds(SortInput(Concat(input_files)))
  /\ pc' = "loop"
  /\ UNCHANGED <<input_files, timestamps_lst, window_half_width, offset_start,
                 offset_stop, arg, ret, tel_id, df_magic, n_events_magic, n_coincidences,
                 offset_at_max, average_offset, mask, event_data, features,
                 profiles, output>>

\* ------------------------------------------------------------------------
\* Window pre-filter, lines 171-204
\* ------------------------------------------------------------------------
\* lines 188-189
TimeLolim(ts_lst, offs, window) == ts_lst[1] + offs[1] - window
TimeUplim(ts_lst, offs, window) == ts_lst[Len(ts_lst)] + offs[Len(offs)] + window

\* lines 191-194
InWindowNoWidth(ts, ts_lst, offs, window) ==
  /\ ts >= ts_lst[1] + offs[1]
  /\ ts <= ts_lst[Len(ts_lst)] + offs[Len(offs)]

InWindow(ts, ts_lst, offs, window) ==
  /\ ts >= TimeLolim(ts_lst, offs, window)
  /\ ts <= TimeUplim(ts_lst, offs, window)

\* line 173: the events of telescope tel
OfTelescope(edm, tel) ==
  LET OfTel(m) == m.tel_id = tel IN SelectSeq(edm, OfTel)

\* lines 191-195 and 203-204: the events the mask keeps
PreFilter(dfm, ts_lst, offs, window) ==
  LET Kept(m) == InWindow(m.ts, ts_lst, offs, window) IN SelectSeq(dfm, Kept)

\* lines 171-199: the next telescope has no event in the window: skipped
PreFilterSkip ==
  /\ pc = "loop"
  /\ tel_queue # <<>>
  /\ LET dfm == OfTelescope(event_data_magic, Head(tel_queue))
     IN  /\ PreFilter(dfm, timestamps_lst, time_offsets, window_half_width) = <<>>
         /\ df_magic' = dfm
  /\ n_events_magic' = 0
  /\ tel_id' = Head(tel_queue)
  /\ tel_queue' = Tail(tel_queue)
  /\ UNCHANGED <<inputs, pc, n_coincidences, offset_at_max, average_offset,
                 mask, event_data, features, profiles, output>>

\* lines 171-204: the next telescope has events in the window
PreFilterKeep ==
  /\ pc = "loop"
  /\ tel_queue # <<>>
  /\ LET kept == PreFilter(OfTelescope(event_data_magic, Head(tel_queue)),
                           timestamps_lst, time_offsets, window_half_width)
     IN  /\ kept # <<>>
         /\ df_magic' = kept
         /\ n_events_magic' = Len(kept)
  /\ tel_id' = Head(tel_queue)
  /\ tel_queue' = Tail(tel_queue)
  /\ pc' = "scan"
  /\ UNCHANGED <<inputs, n_coincidences, offset_at_max, average_offset, mask,
                 event_data, features, profiles, output>>

\* ------------------------------------------------------------------------
\* Offset scan, lines 216-244
\* ------------------------------------------------------------------------
\* lines 220-234: one count per time offset
ScanCountsOnce(ts_lst, dfm, offs, window) ==
  [k \in DOMAIN offs |->
     Cardinality({c[2] : c \in CoincidenceMask(ts_lst, dfm, offs[k], window)})]

ScanCounts(ts_lst, dfm, offs, window) ==
  [k \in DOMAIN offs |->
     Cardinality(CoincidenceMask(ts_lst, dfm, offs[k], window))]

Scan ==
  /\ pc = "scan"
  /\ n_coincidences' =
       ScanCounts(timestamps_lst, df_magic, time_offsets, window_half_width)
  /\ pc' = "scanned"
  /\ UNCHANGED <<inputs, tel_queue, tel_id, df_magic, n_events_magic, offset_at_max,
                 average_offset, mask, event_data, features, profiles, output>>

\* lines 236-238: no coincidence at any offset: the telescope is skipped
ScanSkipRecorded ==
  /\ pc = "scanned"
  /\ \A k \in DOMAIN n_coincidences : n_coincidences[k] = 0
  /\ profiles' = Append(profiles, [coincidence_id |-> 10 + tel_id,
                                    n_coincidence |-> n_coincidences])
  /\ pc' = "loop"
  /\ UNCHANGED <<inputs, tel_queue, tel_id, df_magic, n_events_magic, n_coincidences,
                 offset_at_max, average_offset, mask, event_data, features,
                 output>>

ScanSkip ==
  /\ pc = "scanned"
  /\ \A k \in DOMAIN n_coincidences : n_coincidences[k] = 0
  /\ pc' = "loop"
  /\ UNCHANGED <<inputs, tel_queue, tel_id, df_magic, n_events_magic, n_coincidences,
                 offset_at_max, average_offset, mask, event_data, features,
                 profiles, output>>

\* the positions of the offsets maximising the count
ArgMaxFirst(counts) ==
  {Min({k \in DOMAIN counts : counts[k] = Max(Range(counts))})}

ArgMax(counts) ==
  {k \in DOMAIN counts : counts[k] = Max(Range(counts))}

\* line 244: the mean of the maximising offsets, as the fraction <<sum, n>>
OffsetAtMax(offs, counts) ==
  LET A == ArgMax(counts)
  IN  <<SumSet(A, offs), Cardinality(A)>>

FindMax ==
  /\ pc = "scanned"
  /\ \E k \in DOMAIN n_coincidences : n_coincidences[k] # 0
  /\ offset_at_max' = OffsetAtMax(time_offsets, n_coincidences)
  /\ pc' = "refine"
  /\ UNCHANGED <<inputs, tel_queue, tel_id, df_magic, n_events_magic, n_coincidences,
                 average_offset, mask, event_data, features, profiles, output>>

\* ------------------------------------------------------------------------
\* Offset refinement, lines 246-259
\* ------------------------------------------------------------------------
\* lines 250-251 and the np.round of lines 253-254, for the mean <<sum, n>>
OffsetLolim(oam, window) == RoundHalfEven(oam[1] - 2 * window * oam[2], oam[2])
OffsetUplim(oam, window) == RoundHalfEven(oam[1] + 2 * window * oam[2], oam[2])

\* lines 253-256: the positions of the offsets of the average region
AverageRegionNarrow(offs, oam, window) ==
  {k \in DOMAIN offs :
     /\ offs[k] >= RoundHalfEven(oam[1] - window * oam[2], oam[2])
     /\ offs[k] <= RoundHalfEven(oam[1] + window * oam[2], oam[2])}

AverageRegion(offs, oam, window) ==
  {k \in DOMAIN offs :
     /\ offs[k] >= OffsetLolim(oam, window)
     /\ offs[k] <= OffsetUplim(oam, window)}

\* np.average(..., weights=...): the sum of the weights (the denominator)
WeightSum(offs, counts, oam, window) ==
  SumSet(AverageRegion(offs, oam, window), counts)

\* the numerator: sum of offset * weight
WeightedSum(offs, counts, oam, window) ==
  SumSet(AverageRegion(offs, oam, window),
         [k \in DOMAIN offs |-> offs[k] * counts[k]])

\* lines 258-259: the weighted mean, rounded to an integer
AverageOffsetUnweighted(offs, counts, oam, window) ==
  RoundHalfEven(SumSet(AverageRegion(offs, oam, window), offs),
                Cardinality(AverageRegion(offs, oam, window)))

AverageOffset(offs, counts, oam, window) ==
  RoundHalfEven(WeightedSum(offs, counts, oam, window),
                WeightSum(offs, counts, oam, window))

\* line 258 raises ZeroDivisionError ("Weights sum to zero, can't be
\* normalized") when the average region is empty or holds only zero counts
RefineCrash ==
  /\ pc = "refine"
  /\ WeightSum(time_offsets, n_coincidences, offset_at_max,
               window_half_width) = 0
  /\ pc' = "crashed"
  /\ UNCHANGED <<inputs, tel_queue, tel_id, df_magic, n_events_magic, n_coincidences,
                 offset_at_max, average_offset, mask, event_data, features,
                 profiles, output>>

Refine ==
  /\ pc = "refine"
  /\ WeightSum(time_offsets, n_coincidences, offset_at_max,
               window_half_width) # 0
  /\ average_offset' = AverageOffset(time_offsets, n_coincidences,
                                     offset_at_max, window_half_width)
  /\ pc' = "check"
  /\ UNCHANGED <<inputs, tel_queue, tel_id, df_magic, n_events_magic, n_coincidences,
                 offset_at_max, mask, event_data, features, profiles, output>>

\* lines 263-272: the coincidence is checked again at the average offset
FinalCheck ==
  /\ pc = "check"
  /\ mask' = CoincidenceMask(timestamps_lst, df_magic, average_offset,
                             window_half_width)
  /\ pc' = "assemble"
  /\ UNCHANGED <<inputs, tel_queue, tel_id, df_magic, n_events_magic, n_coincidences,
                 offset_at_max, average_offset, event_data, features,
                 profiles, output>>

\* ------------------------------------------------------------------------
\* Match assembly, lines 278-327
\* ------------------------------------------------------------------------
\* np.where(mask), line 280: the True cells in row-major order
RECURSIVE WhereSeq(_)
WhereSeq(cells) ==
  IF cells = {} THEN <<>>
  ELSE LET c == CHOOSE x \in cells :
                  \A y \in cells : \/ x[1] < y[1]
                                   \/ (x[1] = y[1] /\ x[2] <= y[2])
       IN  <<c>> \o WhereSeq(cells \ {c})

\* lines 286-290: the LST-1 event i with the ids of the MAGIC event m,
\* indexed by (obs_id_magic, event_id_magic, tel_id)
LstRow(i, m) ==
  [obs_id_magic |-> ObsIdMagic, event_id_magic |-> m.event_id_magic,
   tel_id |-> TelLst, payload |-> <<TelLst, i>>,
   obs_id_lst |-> <<ObsIdLst>>, event_id_lst |-> <<EventIdLst(i)>>]

\* df_lst, lines 280-290: one row per True cell
DfLst(cells, dfm) ==
  LET w == WhereSeq(cells)
  IN  [k \in DOMAIN w |-> LstRow(w[k][1], dfm[w[k][2]])]

\* lines 294-298: the MAGIC event m with the LST-1 ids written into it;
\* lst = <<>> for an event no True cell names, <<i>> otherwise
MagicRow(m, lst) ==
  [obs_id_magic |-> ObsIdMagic, event_id_magic |-> m.event_id_magic,
   tel_id |-> m.tel_id, payload |-> <<m.tel_id, m.event_id_magic>>,
   obs_id_lst |-> IF lst = <<>> THEN NoValue ELSE <<ObsIdLst>>,
   event_id_lst |-> IF lst = <<>> THEN NoValue ELSE <<EventIdLst(lst[1])>>]

\* The LST-1 events coincident with the MAGIC event at position j
Partners(cells, j) == {c[1] : c \in {x \in cells : x[2] = j}}

\* Lines 297-298 assign through df_magic.loc[multi_indices_magic, ...] with
\* one label per True cell.  A MAGIC event named by several True cells is
\* assigned several times: which value remains is not defined by the array
\* assignment, so any of its partners may be left in the row.
Assignments(cells, dfm) ==
  {f \in [DOMAIN dfm -> (DOMAIN timestamps_lst) \cup {0}] :
     \A j \in DOMAIN dfm :
        IF Partners(cells, j) = {} THEN f[j] = 0
        ELSE f[j] \in Partners(cells, j)}

DfMagic(dfm, f) ==
  [j \in DOMAIN dfm |-> MagicRow(dfm[j], IF f[j] = 0 THEN <<>> ELSE <<f[j]>>)]

\* the row of lines 301-316 with the matched MAGIC events counted in place
\* of the True cells of the mask
FeaturePerMagicEvent(tel, window, avg, cells, n_magic) ==
  [coincidence_id |-> 10 + tel,
   window_half_width |-> window,
   average_offset |-> avg,
   n_coincidence |-> Cardinality({c[2] : c \in cells}),
   n_events_magic |-> n_magic]

\* lines 301-316
Feature(tel, window, avg, cells, n_magic) ==
  [coincidence_id |-> 10 + tel,
   window_half_width |-> window,
   average_offset |-> avg,
   n_coincidence |-> Cardinality(cells),
   n_events_magic |-> n_magic]

\* lines 318-323
Profile(tel, counts) ==
  [coincidence_id |-> 10 + tel, n_coincidence |-> counts]

\* lines 278-327
Assemble ==
  /\ pc = "assemble"
  /\ \E f \in Assignments(mask, df_magic) :
       event_data' = event_data \o DfLst(mask, df_magic) \o DfMagic(df_magic, f)
  /\ features' = Append(features, Feature(tel_id, window_half_width,
                                          average_offset, mask, n_events_magic))
  /\ profiles' = Append(profiles, Profile(tel_id, n_coincidences))
  /\ pc' = "loop"
  /\ UNCHANGED <<inputs, tel_queue, tel_id, df_magic, n_events_magic, n_coincidences,
                 offset_at_max, average_offset, mask, output>>

\* ------------------------------------------------------------------------
\* After the loop: lines 329-362
\* ------------------------------------------------------------------------
\* lines 329-331: nothing was merged, the process exits without output
ExitEmptySaves ==
  /\ pc = "loop"
  /\ tel_queue = <<>>
  /\ event_data = <<>>
  /\ pc' = "save_events"
  /\ UNCHANGED <<inputs, tel_queue, tel_id, df_magic, n_events_magic, n_coincidences,
                 offset_at_max, average_offset, mask, event_data, features,
                 profiles, output>>

ExitEmpty ==
  /\ pc = "loop"
  /\ tel_queue = <<>>
  /\ event_data = <<>>
  /\ pc' = "exit"
  /\ UNCHANGED <<inputs, tel_queue, tel_id, df_magic, n_events_magic, n_coincidences,
                 offset_at_max, average_offset, mask, event_data, features,
                 profiles, output>>

\* a fraction <<num, den>> (den > 0) in lowest terms: two floats obtained as
\* correctly rounded quotients of small integers are equal iff these are
RECURSIVE Gcd(_, _)
Gcd(a, b) == IF b = 0 THEN a ELSE Gcd(b, a % b)

Frac(num, den) ==
  LET g == Gcd(IF num < 0 THEN -num ELSE num, den)
  IN  <<num \div g, den \div g>>

FracLess(p, q) == p[1] * q[2] < q[1] * p[2]

\* the order of the index (obs_id_magic, event_id_magic, tel_id), line 333
LessMagicIndex(a, b) ==
  \/ a.obs_id_magic < b.obs_id_magic
  \/ /\ a.obs_id_magic = b.obs_id_magic
     /\ \/ a.event_id_magic < b.event_id_magic
        \/ (a.event_id_magic = b.event_id_magic /\ a.tel_id < b.tel_id)

\* the order of the index (obs_id, event_id, tel_id), line 357
LessIndex(a, b) ==
  \/ FracLess(a.obs_id, b.obs_id)
  \/ /\ a.obs_id = b.obs_id
     /\ \/ FracLess(a.event_id, b.event_id)
        \/ (a.event_id = b.event_id /\ a.tel_id < b.tel_id)

Less(a, b, by) ==
  IF by = "magic" THEN LessMagicIndex(a, b) ELSE LessIndex(a, b)

RECURSIVE Insert(_, _, _)
\* r put into the sorted table s behind the rows not greater than it
Insert(s, r, by) ==
  IF s = <<>> THEN <<r>>
  ELSE IF Less(r, Head(s), by) THEN <<r>> \o s
  ELSE <<Head(s)>> \o Insert(Tail(s), r, by)

RECURSIVE SortIndex(_, _)
\* DataFrame.sort_index: a stable sort by the index
SortIndex(s, by) ==
  IF s = <<>> THEN <<>>
  ELSE Insert(SortIndex(SubSeq(s, 1, Len(s) - 1), by), s[Len(s)], by)

\* the columns of a row of the merged table (the index levels are not
\* columns): what DataFrame.drop_duplicates compares
ColumnsWithIndex(r) ==
  <<r.payload, r.obs_id_lst, r.event_id_lst, r.obs_id_magic,
    r.event_id_magic, r.tel_id>>

Columns(r) == <<r.payload, r.obs_id_lst, r.event_id_lst>>

\* DataFrame.drop_duplicates, line 334: the first of the rows with equal
\* columns is kept
DropDuplicates(s) ==
  LET First(k) == \A n \in 1..(k - 1) : Columns(s[n]) # Columns(s[k])
      keep == {k \in DOMAIN s : First(k)}
      RECURSIVE Pick(_)
      Pick(k) == IF k > Len(s) THEN <<>>
                 ELSE (IF k \in keep THEN <<s[k]>> ELSE <<>>) \o Pick(k + 1)
  IN  Pick(1)

\* lines 333-334
Deduplicate ==
  /\ pc = "loop"
  /\ tel_queue = <<>>
  /\ event_data # <<>>
  /\ event_data' = DropDuplicates(SortIndex(event_data, "magic"))
  /\ pc' = "resolve"
  /\ UNCHANGED <<inputs, tel_queue, tel_id, df_magic, n_events_magic, n_coincidences,
                 offset_at_max, average_offset, mask, features, profiles,
                 output>>

\* the rows of the group (obs_id_magic, event_id_magic) of row r
MagicGroup(tbl, r) ==
  {k \in DOMAIN tbl : /\ tbl[k].obs_id_magic = r.obs_id_magic
                      /\ tbl[k].event_id_magic = r.event_id_magic}

\* line 345: the group mean of a column, NaN skipped; <<>> when all are NaN
GroupMean(tbl, r, col) ==
  LET G == {k \in MagicGroup(tbl, r) : tbl[k][col] # NoValue}
  IN  IF G = {} THEN NoValue
      ELSE <<Frac(SumSet(G, [k \in DOMAIN tbl |->
                               IF tbl[k][col] = NoValue THEN 0
                               ELSE tbl[k][col][1]]),
                  Cardinality(G))>>

\* lines 345-353: the resolved ids of row r: the group mean of the LST-1
\* ids, or the MAGIC ids where the mean of obs_id_lst is missing
ResolvedOwn(tbl, r) ==
  IF r.obs_id_lst = NoValue
  THEN [obs_id |-> <<r.obs_id_magic, 1>>, event_id |-> <<r.event_id_magic, 1>>]
  ELSE [obs_id |-> <<r.obs_id_lst[1], 1>>, event_id |-> <<r.event_id_lst[1], 1>>]

Resolved(tbl, r) ==
  IF GroupMean(tbl, r, "obs_id_lst") = NoValue
  THEN [obs_id |-> <<r.obs_id_magic, 1>>, event_id |-> <<r.event_id_magic, 1>>]
  ELSE [obs_id |-> GroupMean(tbl, r, "obs_id_lst")[1],
        event_id |-> GroupMean(tbl, r, "event_id_lst")[1]]

WithResolved(tbl, r) ==
  [obs_id |-> Resolved(tbl, r).obs_id, event_id |-> Resolved(tbl, r).event_id,
   tel_id |-> r.tel_id, obs_id_magic |-> r.obs_id_magic,
   event_id_magic |-> r.event_id_magic, payload |-> r.payload,
   obs_id_lst |-> r.obs_id_lst, event_id_lst |-> r.event_id_lst]

\* lines 345-357
Resolve ==
  /\ pc = "resolve"
  /\ event_data' =
       SortIndex([k \in DOMAIN event_data |->
                    WithResolved(event_data, event_data[k])], "resolved")
  /\ pc' = "stereo"
  /\ UNCHANGED <<inputs, tel_queue, tel_id, df_magic, n_events_magic, n_coincidences,
                 offset_at_max, average_offset, mask, features, profiles,
                 output>>

\* ------------------------------------------------------------------------
\* get_stereo_events, io.py lines 98-154, called at line 359
\* ------------------------------------------------------------------------
\* The telescope combination types, io.py lines 63-68, in dict order
TEL_COMBINATIONS == <<{TelM1, TelM2}, {TelLst, TelM1}, {TelLst, TelM2},
                      {TelLst, TelM1, TelM2}>>

\* The rows sharing the key (obs_id, event_id) of row r.  GROUP_INDEX also
\* names true_alt and true_az, columns that only simulated data carry.
Group(tbl, r) ==
  {k \in DOMAIN tbl : tbl[k].obs_id = r.obs_id /\ tbl[k].event_id = r.event_id}

\* io.py line 129: groupby(GROUP_INDEX).size()
MultiplicityTels(tbl, r) ==
  Cardinality({tbl[k].tel_id : k \in Group(tbl, r)})

Multiplicity(tbl, r) == Cardinality(Group(tbl, r))

\* io.py line 130: query("multiplicity == [2, 3]")
StereoKeep(tbl) == {k \in DOMAIN tbl : Multiplicity(tbl, tbl[k]) \in {2, 3}}

\* io.py lines 136-152: the combination type of row k of the stereo rows
\* keep: the last type c whose rows (tel_id in the combination, multiplicity
\* equal to its size) form a group of that size again
ComboType(tbl, keep, k) ==
  LET In(c) == {n \in keep : /\ tbl[n].tel_id \in TEL_COMBINATIONS[c]
                             /\ Multiplicity(tbl, tbl[n])
                                  = Cardinality(TEL_COMBINATIONS[c])}
      Hit(c) == /\ k \in In(c)
                /\ Cardinality(In(c) \cap Group(tbl, tbl[k]))
                     = Cardinality(TEL_COMBINATIONS[c])
      H == {c \in DOMAIN TEL_COMBINATIONS : Hit(c)}
  IN  IF H = {} THEN NoValue ELSE <<Max(H) - 1>>

\* astype(int) of a non-negative float, line 362
AsIntRound(q) == RoundHalfEven(q[1], q[2])

AsInt(q) == q[1] \div q[2]

StereoRow(tbl, keep, k) ==
  [obs_id |-> AsInt(tbl[k].obs_id), event_id |-> AsInt(tbl[k].event_id),
   tel_id |-> tbl[k].tel_id, obs_id_magic |-> tbl[k].obs_id_magic,
   event_id_magic |-> tbl[k].event_id_magic, payload |-> tbl[k].payload,
   obs_id_lst |-> tbl[k].obs_id_lst, event_id_lst |-> tbl[k].event_id_lst,
   multiplicity |-> Multiplicity(tbl, tbl[k]),
   combo_type |-> ComboType(tbl, keep, k)]

RECURSIVE StereoRows(_, _, _)
StereoRows(tbl, keep, k) ==
  IF k > Len(tbl) THEN <<>>
  ELSE (IF k \in keep THEN <<StereoRow(tbl, keep, k)>> ELSE <<>>)
       \o StereoRows(tbl, keep, k + 1)

\* lines 359-362
GetStereoEvents(tbl) == StereoRows(tbl, StereoKeep(tbl), 1)

\* io.py line 146 divides by the number of stereo events: with none left
\* the call raises ZeroDivisionError
StereoCrash ==
  /\ pc = "stereo"
  /\ StereoKeep(event_data) = {}
  /\ pc' = "crashed"
  /\ UNCHANGED <<inputs, tel_queue, tel_id, df_magic, n_events_magic, n_coincidences,
                 offset_at_max, average_offset, mask, event_data, features,
                 profiles, output>>

Stereo ==
  /\ pc = "stereo"
  /\ StereoKeep(event_data) # {}
  /\ event_data' = GetStereoEvents(event_data)
  /\ pc' = "save_events"
  /\ UNCHANGED <<inputs, tel_queue, tel_id, df_magic, n_events_magic, n_coincidences,
                 offset_at_max, average_offset, mask, features, profiles,
                 output>>

\* ------------------------------------------------------------------------
\* Saving, lines 364-399
\* ------------------------------------------------------------------------
\* a table written to the output file with tables.open_file(mode = ...):
\* mode "w" starts the file anew, mode "a" adds to what it holds
Save(at, what, mode, next) ==
  /\ pc = at
  /\ output' = (IF mode = "w" THEN <<>> ELSE output)
                  \o <<[table |-> what, mode |-> mode]>>
  /\ pc' = next
  /\ UNCHANGED <<inputs, tel_queue, tel_id, df_magic, n_events_magic, n_coincidences,
                 offset_at_max, average_offset, mask, event_data, features,
                 profiles>>

\* lines 372-374, mode "w"
SaveEvents == Save("save_events", "events", "w", "save_features")

\* the feature summary written with mode "w"
SaveFeaturesAnew == Save("save_features", "feature", "w", "save_profiles")

\* lines 376-378, mode "a"
SaveFeatures == Save("save_features", "feature", "a", "save_profiles")
\* lines 380-382, mode "a"
SaveProfiles == Save("save_profiles", "profile", "a", "save_subarray")
\* lines 386-397: SubarrayDescription.to_hdf adds to the file
SaveSubarray == Save("save_subarray", "subarray", "a", "done")

Next ==
  \/ LoadMagicNoFile
  \/ LoadMagic
  \/ PreFilterSkip
  \/ PreFilterKeep
  \/ Scan
  \/ ScanSkip
  \/ FindMax
  \/ RefineCrash
  \/ Refine
  \/ FinalCheck
  \/ Assemble
  \/ ExitEmpty
  \/ Deduplicate
  \/ Resolve
  \/ StereoCrash
  \/ Stereo
  \/ SaveEvents
  \/ SaveFeatures
  \/ SaveProfiles
  \/ SaveSubarray

Spec == Init /\ [][Next]_vars

\* ========================================================================
\* Functions called on their own
\* ========================================================================
\* the variables of event_coincidence, at rest while one function is called
Pipeline ==
  <<input_files, timestamps_lst, event_data_magic, window_half_width,
    offset_start, offset_stop, pc, tel_queue, tel_id, df_magic, n_events_magic,
    n_coincidences, offset_at_max, average_offset, mask, event_data, features,
    profiles, output>>

InitPipelineIdle ==
  /\ input_files = <<>>
  /\ timestamps_lst = <<>>
  /\ event_data_magic = <<>>
  /\ window_half_width = 0
  /\ offset_start = 0
  /\ offset_stop = 0
  /\ pc = "call"
  /\ tel_queue = <<>>
  /\ tel_id = 0
  /\ df_magic = <<>>
  /\ n_events_magic = 0
  /\ n_coincidences = <<>>
  /\ offset_at_max = <<0, 1>>
  /\ average_offset = 0
  /\ mask = {}
  /\ event_data = <<>>
  /\ features = <<>>
  /\ profiles = <<>>
  /\ output = <<>>

\* the call arg returns the value v
Return(v) ==
  /\ ret' = [raised |-> FALSE, value |-> v]
  /\ pc' = "returned"
  /\ UNCHANGED <<input_files, timestamps_lst, event_data_magic, window_half_width,
                 offset_start, offset_stop, tel_queue, tel_id, df_magic,
                 n_events_magic, n_coincidences, offset_at_max, average_offset,
                 mask, event_data, features, profiles, output, arg>>

\* the call arg raises the exception e
Raise(e) ==
  /\ ret' = [raised |-> TRUE, value |-> e]
  /\ pc' = "returned"
  /\ UNCHANGED <<input_files, timestamps_lst, event_data_magic, window_half_width,
                 offset_start, offset_stop, tel_queue, tel_id, df_magic,
                 n_events_magic, n_coincidences, offset_at_max, average_offset,
                 mask, event_data, features, profiles, output, arg>>

\* ------------------------------------------------------------------------
\* The timestamps in nanoseconds, lines 154-166 and 175-180
\* ------------------------------------------------------------------------
\* str(time) of an LST-1 timestamp has at most 7 fractional digits
MaxFrac == 7
FracDigits == {0, 7}
IntDigits == {0, 1}

RECURSIVE Pow10(_)
Pow10(n) == IF n = 0 THEN 1 ELSE 10 * Pow10(n - 1)

RECURSIVE DigitsValue(_)
\* the number a sequence of decimal digits writes
DigitsValue(ds) ==
  IF ds = <<>> THEN 0
  ELSE 10 * DigitsValue(SubSeq(ds, 1, Len(ds) - 1)) + ds[Len(ds)]

\* Decimal(str(time)): a coefficient and an exponent of 10, nothing rounded
DecimalOf(int, frac) ==
  [coef |-> DigitsValue(int \o frac), exp |-> -Len(frac)]

DecimalOfInt(n) == [coef |-> n, exp |-> 0]

\* line 73
SEC2NSEC == [coef |-> 1, exp |-> 9]

\* Decimal * Decimal
DecimalMul(a, b) == [coef |-> a.coef * b.coef, exp |-> a.exp + b.exp]

\* Decimal + Decimal
DecimalAdd(a, b) ==
  LET e == IF a.exp < b.exp THEN a.exp ELSE b.exp
  IN  [coef |-> a.coef * Pow10(a.exp - e) + b.coef * Pow10(b.exp - e), exp |-> e]

\* u.Quantity(..., dtype=int) of a non-negative Decimal: int() truncates
DecimalToInt(d) ==
  IF d.exp >= 0 THEN d.coef * Pow10(d.exp) ELSE d.coef \div Pow10(-d.exp)

\* lines 164-166 done in float64 instead of Decimal: beyond 2^53 ns the
\* product time * 1e9 keeps multiples of 256 ns only
TimestampLstFloat(int, frac) ==
  (DecimalToInt(DecimalMul(DecimalOf(int, frac), SEC2NSEC)) \div 256) * 256

\* lines 164-166
TimestampLst(int, frac) ==
  DecimalToInt(DecimalMul(DecimalOf(int, frac), SEC2NSEC))

\* lines 176-180
TimestampMagic(sec, nsec) ==
  DecimalToInt(DecimalAdd(DecimalMul(DecimalOfInt(sec), SEC2NSEC),
                          DecimalOfInt(nsec)))

MagicSeconds == {0, 1}
MagicNanoseconds == {0, 1, 99, 100, 500000000, 999999999}

InitTimestamps ==
  \/ \E i \in IntDigits : \E n \in 0..MaxFrac : \E f \in [1..n -> FracDigits] :
       arg = [fn |-> "timestamps_lst", int |-> <<i>>, frac |-> f]
  \/ \E sec \in MagicSeconds, nsec \in MagicNanoseconds :
       arg = [fn |-> "timestamps_magic", sec |-> sec, nsec |-> nsec]

NormaliseLst ==
  /\ pc = "call"
  /\ arg.fn = "timestamps_lst"
  /\ Return(TimestampLst(arg.int, arg.frac))

NormaliseMagic ==
  /\ pc = "call"
  /\ arg.fn = "timestamps_magic"
  /\ Return(TimestampMagic(arg.sec, arg.nsec))

\* ------------------------------------------------------------------------
\* load_lst_data_file, io.py lines 298-386
\* ------------------------------------------------------------------------
\* A row of the file: its event id, whether it is a subarray (physics)
\* event, whether its image parameters are all present, and its place in
\* the file
RawEventIds == {1, 2}
RawRows ==
  [event_id : RawEventIds, subarray : BOOLEAN, complete : BOOLEAN]

RECURSIVE InsertById(_, _)
InsertById(s, r) ==
  IF s = <<>> THEN <<r>>
  ELSE IF r.event_id < Head(s).event_id THEN <<r>> \o s
  ELSE <<Head(s)>> \o InsertById(Tail(s), r)

RECURSIVE SortById(_)
\* io.py lines 321-322: set_index and sort_index
SortById(s) ==
  IF s = <<>> THEN <<>>
  ELSE InsertById(SortById(SubSeq(s, 1, Len(s) - 1)), s[Len(s)])

\* io.py lines 327-333: interleaved and poorly reconstructed events go
Reconstructed(tbl) ==
  LET Good(r) == r.subarray /\ r.complete IN SelectSeq(tbl, Good)

\* io.py lines 337-342: np.unique(..., return_counts=True), counts > 1
EventIdsDup(tbl) ==
  {id \in {tbl[k].event_id : k \in DOMAIN tbl} :
     Cardinality({k \in DOMAIN tbl : tbl[k].event_id = id}) > 1}

\* io.py line 343: query("event_id != [...]")
ExcludeKeepFirst(tbl, ids) ==
  LET First(k) == \A n \in 1..(k - 1) : tbl[n].event_id # tbl[k].event_id
      RECURSIVE Pick(_)
      Pick(k) == IF k > Len(tbl) THEN <<>>
                 ELSE (IF First(k) THEN <<tbl[k]>> ELSE <<>>) \o Pick(k + 1)
  IN  Pick(1)

Exclude(tbl, ids) ==
  LET Kept(r) == r.event_id \notin ids IN SelectSeq(tbl, Kept)

\* io.py lines 318-349: the events returned and whether the warning of
\* lines 345-347 was logged
LoadLstDataFile(rows) ==
  LET tbl == Reconstructed(SortById(rows))
      dup == EventIdsDup(tbl)
  IN  [event_data |-> IF dup = {} THEN tbl ELSE Exclude(tbl, dup),
       warned |-> dup # {}]

InitLoadLst ==
  \E n \in 0..MaxRaw : \E rows \in [1..n -> RawRows] :
    arg = [fn |-> "load_lst_data_file",
           rows |-> [k \in 1..n |->
                       [event_id |-> rows[k].event_id,
                        subarray |-> rows[k].subarray,
                        complete |-> rows[k].complete, row |-> k]]]

LoadLst ==
  /\ pc = "call"
  /\ arg.fn = "load_lst_data_file"
  /\ Return(LoadLstDataFile(arg.rows))

\* ------------------------------------------------------------------------
\* get_stereo_events called on a table of its own, io.py lines 98-154
\* ------------------------------------------------------------------------
\* The rows of a table indexed by (obs_id, event_id, tel_id).  The index
\* need not be unique: the merged table of event_coincidence can hold two
\* rows with one key.
ShowerEventIds == {1, 2}
ShowerRows ==
  [obs_id : {ObsIdLst}, event_id : ShowerEventIds, tel_id : {TelLst, TelM1, TelM2}]

\* io.py lines 129-152: the rows kept, by their position in the input, with
\* the two columns added
RECURSIVE Annotated(_, _, _)
Annotated(tbl, keep, k) ==
  IF k > Len(tbl) THEN <<>>
  ELSE (IF k \in keep
        THEN <<[row |-> k, obs_id |-> tbl[k].obs_id, event_id |-> tbl[k].event_id,
                tel_id |-> tbl[k].tel_id,
                multiplicity |-> Multiplicity(tbl, tbl[k]),
                combo_type |-> ComboType(tbl, keep, k)]>>
        ELSE <<>>)
       \o Annotated(tbl, keep, k + 1)

InitGetStereo ==
  \E n \in 1..MaxRows : \E tbl \in [1..n -> ShowerRows] :
    arg = [fn |-> "get_stereo_events", event_data |-> tbl]

\* io.py line 146: without any stereo event n_events_total is 0 and the
\* percentage of the first combination type divides by it
GetStereoRaise ==
  /\ pc = "call"
  /\ arg.fn = "get_stereo_events"
  /\ StereoKeep(arg.event_data) = {}
  /\ Raise("ZeroDivisionError")

GetStereoReturn ==
  /\ pc = "call"
  /\ arg.fn = "get_stereo_events"
  /\ StereoKeep(arg.event_data) # {}
  /\ Return(Annotated(arg.event_data, StereoKeep(arg.event_data), 1))

\* ------------------------------------------------------------------------
\* The DL2 loaders, io.py lines 520-622 and 625-698
\* ------------------------------------------------------------------------
\* the IRF types the loaders name, and the values a configuration may hold
IrfTypes == {"software", "software_only_3tel", "magic_only", "hardware"}
IrfTypeInputs == IrfTypes \cup {"software_3tel"}

\* the comparison of the column combo_type, NaN where no combination type
\* was assigned, with a number
ComboIs(r, types) == r.combo_type # NoValue /\ r.combo_type[1] \in types

\* io.py lines 556-566: the selection of load_mc_dl2_data_file for the
\* recognised types; magic_stereo is the flag of the event
SelectMc(stereo, irf_type, magic_stereo) ==
  IF irf_type = "software"
  THEN SelectSeq(stereo, LAMBDA r : ComboIs(r, {1, 2, 3}) /\ magic_stereo[r.event_id])
  ELSE IF irf_type = "software_only_3tel"
  THEN SelectSeq(stereo, LAMBDA r : ComboIs(r, {3}))
  ELSE IF irf_type = "magic_only"
  THEN SelectSeq(stereo, LAMBDA r : ComboIs(r, {0}))
  ELSE stereo

\* io.py lines 659-672: the selection of load_dl2_data_file; no branch is
\* taken for a value that is none of the four, and the table stays as
\* get_stereo_events returned it
SelectData(stereo, irf_type) ==
  IF irf_type = "software"
  THEN SelectSeq(stereo, LAMBDA r : ComboIs(r, {1, 2, 3}))
  ELSE IF irf_type = "software_only_3tel"
  THEN SelectSeq(stereo, LAMBDA r : ComboIs(r, {3}))
  ELSE IF irf_type = "magic_only"
  THEN SelectSeq(stereo, LAMBDA r : ComboIs(r, {0}))
  ELSE stereo

\* get_dl2_mean and QTable.from_pandas, io.py lines 574-578 and 681-685:
\* the event table has one row per (obs_id, event_id) of the selected rows
Dl2Mean(rows) ==
  {[obs_id |-> rows[k].obs_id, event_id |-> rows[k].event_id] : k \in DOMAIN rows}

InitLoadDl2 ==
  \E n \in 1..MaxRows : \E tbl \in [1..n -> ShowerRows] :
  \E irf \in IrfTypeInputs :
    \/ arg = [fn |-> "load_dl2_data_file", event_data |-> tbl, irf_type |-> irf]
    \/ \E ms \in [ShowerEventIds -> BOOLEAN] :
         arg = [fn |-> "load_mc_dl2_data_file", event_data |-> tbl,
                irf_type |-> irf, magic_stereo |-> ms]

\* io.py lines 552 and 654: the exception of get_stereo_events propagates
LoadDl2StereoRaise ==
  /\ pc = "call"
  /\ arg.fn \in {"load_mc_dl2_data_file", "load_dl2_data_file"}
  /\ StereoKeep(arg.event_data) = {}
  /\ Raise("ZeroDivisionError")

\* io.py lines 565-566
LoadMcDl2Unknown ==
  /\ pc = "call"
  /\ arg.fn = "load_mc_dl2_data_file"
  /\ StereoKeep(arg.event_data) # {}
  /\ arg.irf_type \notin IrfTypes
  /\ Raise("KeyError")

\* io.py lines 548-622
LoadMcDl2 ==
  /\ pc = "call"
  /\ arg.fn = "load_mc_dl2_data_file"
  /\ StereoKeep(arg.event_data) # {}
  /\ arg.irf_type \in IrfTypes
  /\ Return(Dl2Mean(SelectMc(Annotated(arg.event_data,
                                       StereoKeep(arg.event_data), 1),
                             arg.irf_type, arg.magic_stereo)))

\* io.py lines 650-698
LoadDl2 ==
  /\ pc = "call"
  /\ arg.fn = "load_dl2_data_file"
  /\ StereoKeep(arg.event_data) # {}
  /\ Return(Dl2Mean(SelectData(Annotated(arg.event_data,
                                         StereoKeep(arg.event_data), 1),
                               arg.irf_type)))

\* ------------------------------------------------------------------------
\* The exclusion of the non-common parameters, lines 116-127, on the column
\* names of two tables of its own
\* ------------------------------------------------------------------------
\* the names a column of either table can have
ColumnNames ==
  {"dragon_time", "timestamp", "time_sec", "time_nanosec", "intensity", "alt_tel"}

\* config_coinc["timestamp_type_lst"], line 117
TimestampTypes == {"dragon_time"}

\* set(a) ^ set(b)
SymDiff(a, b) == (a \ b) \cup (b \ a)

\* line 120: rename(columns = {timestamp_type_lst: "timestamp"}); a name
\* that is no column is left alone
Renamed(cols, type) ==
  IF type \in cols THEN (cols \ {type}) \cup {"timestamp"} ELSE cols

\* lines 122-124
ParamsNonCommon(cols_lst, cols_magic) ==
  SymDiff(SymDiff(cols_lst, {"timestamp"}),
          SymDiff(cols_magic, {"time_sec", "time_nanosec"}))

\* lines 126-127: drop(params_non_common, errors = "ignore") on both tables
ExcludedColumns(cols_lst, cols_magic, type) ==
  LET lst == Renamed(cols_lst, type)
      non_common == ParamsNonCommon(lst, cols_magic)
  IN  [renamed_lst |-> lst,
       params_non_common |-> non_common,
       event_data_lst |-> lst \ non_common,
       event_data_magic |-> cols_magic \ non_common]

InitExclude ==
  \E cl \in SUBSET ColumnNames : \E cm \in SUBSET ColumnNames :
  \E type \in TimestampTypes :
    arg = [fn |-> "exclude_non_common", columns_lst |-> cl, columns_magic |-> cm,
           timestamp_type_lst |-> type]

ExcludeNonCommon ==
  /\ pc = "call"
  /\ arg.fn = "exclude_non_common"
  /\ Return(ExcludedColumns(arg.columns_lst, arg.columns_magic,
                            arg.timestamp_type_lst))

\* ------------------------------------------------------------------------
InitCalls ==
  /\ InitPipelineIdle
  /\ ret = NoValue
  /\ \/ InitTimestamps
     \/ InitLoadLst
     \/ InitGetStereo
     \/ InitLoadDl2
     \/ InitExclude

NextCalls ==
  \/ NormaliseLst
  \/ NormaliseMagic
  \/ LoadLst
  \/ GetStereoRaise
  \/ GetStereoReturn
  \/ LoadDl2StereoRaise
  \/ LoadMcDl2Unknown
  \/ LoadMcDl2
  \/ LoadDl2
  \/ ExcludeNonCommon

SpecCalls == InitCalls /\ [][NextCalls]_vars

\* ========================================================================
\* Properties
\* ========================================================================
AbsDiff(a, b) == IF a >= b THEN a - b ELSE b - a

\* all pairs (LST-1 event i, pre-filtered MAGIC event j)
Pairs == (DOMAIN timestamps_lst) \X (DOMAIN df_magic)

\* the MAGIC event of cell c lies at most window_half_width away from the
\* LST-1 event of c shifted by the offset o
Near(c, o) ==
  AbsDiff(df_magic[c[2]].ts, timestamps_lst[c[1]] + o) <= window_half_width

\* C1: in the offset scan and in the final check at the refined offset a
\* MAGIC event at t2 is coincident with an LST-1 event at t1 under offset o
\* and half width w iff t1 + o - w <= t2 <= t1 + o + w: each scan count is
\* the number of such pairs, the definitive mask holds exactly such pairs,
\* a pair on an edge is in and a pair 1 ns outside an edge is out.
C1_ClosedWindow ==
  /\ pc = "scanned" =>
       \A k \in DOMAIN n_coincidences :
          n_coincidences[k]
            = Cardinality({c \in Pairs : Near(c, time_offsets[k])})
  /\ pc = "assemble" =>
       \A c \in Pairs :
          LET d == df_magic[c[2]].ts - timestamps_lst[c[1]] - average_offset
          IN  /\ (c \in mask) <=> (-window_half_width <= d /\ d <= window_half_width)
              /\ (d = window_half_width \/ d = -window_half_width) => c \in mask
              /\ (d = window_half_width + 1 \/ d = -window_half_width - 1)
                   => c \notin mask

\* C1 witness: a definitive mask with a True cell on a window edge and a
\* False cell 1 ns outside an edge
C1_Witness ==
  /\ pc = "assemble"
  /\ window_half_width > 0
  /\ \E c \in mask :
       AbsDiff(df_magic[c[2]].ts, timestamps_lst[c[1]] + average_offset)
         = window_half_width
  /\ \E c \in Pairs \ mask :
       AbsDiff(df_magic[c[2]].ts, timestamps_lst[c[1]] + average_offset)
         = window_half_width + 1

\* the candidate offsets: start, start + 100 ns, ... strictly below stop
Grid ==
  {o \in offset_start..(offset_stop - 1) : (o - offset_start) % TIME_ACCURACY = 0}

\* C2: the scan of a telescope that passed the pre-filter records exactly
\* one count per candidate offset start, start + 100 ns, ... (< stop), and
\* the count of an offset is the number of coincident pairs over all
\* N1 x N2 combinations of LST-1 and pre-filtered MAGIC events, whatever the
\* order of the timestamps.
C2_ScanCounts ==
  pc = "scanned" =>
    /\ Len(n_coincidences) = Cardinality(Grid)
    /\ \A k \in DOMAIN n_coincidences :
         LET o == offset_start + (k - 1) * TIME_ACCURACY
             PerLst == [i \in DOMAIN timestamps_lst |->
                          Cardinality({j \in DOMAIN df_magic : Near(<<i, j>>, o)})]
         IN  /\ o \in Grid
             /\ n_coincidences[k] = SumSet(DOMAIN timestamps_lst, PerLst)

\* C2 witness: a finished scan over LST-1 timestamps that are not in time
\* order, with a MAGIC event coincident with two LST-1 events at one offset
C2_Witness ==
  /\ pc = "scanned"
  /\ Len(timestamps_lst) >= 2
  /\ timestamps_lst[1] > timestamps_lst[2]
  /\ \E k \in DOMAIN n_coincidences : \E j \in DOMAIN df_magic :
       /\ Near(<<1, j>>, time_offsets[k])
       /\ Near(<<2, j>>, time_offsets[k])

\* the positions of the offsets no other offset beats
Maximisers ==
  {k \in DOMAIN n_coincidences :
     \A m \in DOMAIN n_coincidences : n_coincidences[m] <= n_coincidences[k]}

\* C3: the offset at max is the arithmetic mean of all the offsets with the
\* maximum count (offset_at_max is the fraction sum / number), and it is
\* that offset when only one has the maximum.
C3_OffsetAtMax ==
  pc \in {"refine", "check", "assemble"} =>
    /\ offset_at_max[2] = Cardinality(Maximisers)
    /\ offset_at_max[1] = SumSet(Maximisers, time_offsets)
    /\ Cardinality(Maximisers) = 1 =>
         \E k \in Maximisers : offset_at_max = <<time_offsets[k], 1>>

\* C3 witness: a tie of several offsets whose mean is neither the first nor
\* the last of them
C3_Witness ==
  /\ pc = "refine"
  /\ Cardinality(Maximisers) >= 2
  /\ offset_at_max[1] # offset_at_max[2] * time_offsets[Min(Maximisers)]
  /\ offset_at_max[1] # offset_at_max[2] * time_offsets[Max(Maximisers)]

\* x is an integer nearest to the fraction num / den (den > 0)
Nearest(x, num, den) == 2 * AbsDiff(x * den, num) <= den

\* the count-weighted mean of the offsets at the positions R is defined and
\* x is it, rounded to the nearest integer
IsWeightedMean(x, R) ==
  LET den == SumSet(R, n_coincidences)
      num == SumSet(R, [k \in DOMAIN time_offsets |->
                          time_offsets[k] * n_coincidences[k]])
  IN  den > 0 /\ Nearest(x, num, den)

\* the offsets o with offset_at_max - 2 w <= o <= offset_at_max + 2 w, for
\* the mean offset_at_max = sum / n
ExactRegion ==
  {k \in DOMAIN time_offsets :
     /\ offset_at_max[1] - 2 * window_half_width * offset_at_max[2]
          <= offset_at_max[2] * time_offsets[k]
     /\ offset_at_max[2] * time_offsets[k]
          <= offset_at_max[1] + 2 * window_half_width * offset_at_max[2]}

\* the offsets o with round(offset_at_max - 2 w) <= o
\* <= round(offset_at_max + 2 w)
RoundedRegion ==
  {k \in DOMAIN time_offsets :
     /\ RoundHalfEven(offset_at_max[1]
                        - 2 * window_half_width * offset_at_max[2],
                      offset_at_max[2]) <= time_offsets[k]
     /\ time_offsets[k]
          <= RoundHalfEven(offset_at_max[1]
                             + 2 * window_half_width * offset_at_max[2],
                           offset_at_max[2])}

\* C4 as stated: the refined offset is the count-weighted mean, rounded to
\* the nearest integer, of exactly the grid offsets o with
\* offset_at_max - 2 window <= o <= offset_at_max + 2 window, and the
\* definitive mask is the closed-interval test at the refined offset.
C4_Original ==
  /\ pc \in {"check", "assemble"} => IsWeightedMean(average_offset, ExactRegion)
  /\ pc = "assemble" => mask = {c \in Pairs : Near(c, average_offset)}

\* C4 amended: the refined offset is the count-weighted mean, rounded to the
\* nearest integer, of exactly the grid offsets o with
\* round(offset_at_max - 2 window) <= o <= round(offset_at_max + 2 window),
\* both limits rounded to the nearest integer (ties to even); the
\* definitive mask is the closed-interval test at the refined offset.
C4_RefinedOffset ==
  /\ pc \in {"check", "assemble"} => IsWeightedMean(average_offset, RoundedRegion)
  /\ pc = "assemble" => mask = {c \in Pairs : Near(c, average_offset)}

\* C4 witness: a refined offset obtained from an average region that holds
\* an offset outside the unrounded limits, with a match at the refined
\* offset
C4_Witness ==
  /\ pc = "assemble"
  /\ RoundedRegion # ExactRegion
  /\ ExactRegion # {}
  /\ mask # {}

\* the number of coincident pairs at the coarse offset at max, the mean
\* offset_at_max = sum / n
CoarseCount ==
  Cardinality({c \in Pairs :
     LET t1 == timestamps_lst[c[1]]
         t2 == df_magic[c[2]].ts
         n == offset_at_max[2]
     IN  /\ n * (t1 - window_half_width) + offset_at_max[1] <= n * t2
         /\ n * t2 <= n * (t1 + window_half_width) + offset_at_max[1]})

\* C5 as stated: for every telescope that reaches the refinement step the
\* number of coincidences at the refined offset (and so the match fraction
\* over the n_events_magic pre-filtered events) is at least the number of
\* coincidences at the coarse offset at max.
C5_Original ==
  pc = "assemble" =>
    Cardinality(mask) * n_events_magic >= CoarseCount * n_events_magic

\* the event_id_magic of the events of the current telescope with a
\* timestamp in the closed interval [lo, hi]
IdsBetween(lo, hi) ==
  {event_data_magic[k].event_id_magic :
     k \in {n \in DOMAIN event_data_magic :
              /\ event_data_magic[n].tel_id = tel_id
              /\ lo <= event_data_magic[n].ts
              /\ event_data_magic[n].ts <= hi}}

\* the pre-filter kept exactly the events with the ids S
KeptExactly(S) ==
  /\ tel_id # 0 => n_events_magic = Cardinality(S)
  /\ pc \in {"scan", "scanned", "refine", "check", "assemble"} =>
       {df_magic[j].event_id_magic : j \in DOMAIN df_magic} = S

FirstLst == timestamps_lst[1]
LastLst == timestamps_lst[Len(timestamps_lst)]

\* C6 as stated: the pre-filter keeps an event of the current telescope iff
\* its timestamp lies in [first LST-1 timestamp + min_offset - window,
\* last LST-1 timestamp + max_offset + window] with min_offset and
\* max_offset the configured scan bounds (time_offset.start and
\* time_offset.stop); n_events_magic is the number kept.
C6_Original ==
  KeptExactly(IdsBetween(FirstLst + offset_start - window_half_width,
                         LastLst + offset_stop + window_half_width))

\* C6 amended: the same with max_offset the last candidate offset of the
\* scan grid (the largest start + k * 100 ns strictly below the configured
\* stop) instead of the configured stop.
C6_PreFilter ==
  KeptExactly(IdsBetween(FirstLst + offset_start - window_half_width,
                         LastLst + Max(Grid) + window_half_width))

\* C6 witness: the pre-filter kept an event above the first LST-1 timestamp
\* and dropped one that lies beyond the upper limit, but not beyond
\* last + stop + window
C6_Witness ==
  /\ pc = "scan"
  /\ \E j \in DOMAIN df_magic : df_magic[j].ts > FirstLst
  /\ \E k \in DOMAIN event_data_magic :
       /\ event_data_magic[k].tel_id = tel_id
       /\ event_data_magic[k].ts > LastLst + Max(Grid) + window_half_width
       /\ event_data_magic[k].ts <= LastLst + offset_stop + window_half_width

\* the rows the current telescope added to the merged table in this step
Added == SubSeq(event_data', Len(event_data) + 1, Len(event_data'))

\* a row of primary event i annotated with the ids of secondary event m
LstAnnotated(r, i, m) ==
  /\ r.tel_id = TelLst
  /\ r.payload = <<TelLst, i>>
  /\ r.obs_id_magic = ObsIdMagic
  /\ r.event_id_magic = m.event_id_magic

\* a row of secondary event m
IsMagic(r, m) == r.payload = <<m.tel_id, m.event_id_magic>>

\* C7 as stated: for every True cell (i, j) of the definitive mask the rows
\* added to the merged table contain primary event i annotated with the
\* (run, event) ids of secondary event j and secondary event j annotated
\* with the (run, event) ids of primary event i; a secondary event with no
\* True cell carries no primary ids.
C7_Original ==
  [][pc = "assemble" =>
       /\ \A c \in mask :
            /\ \E k \in DOMAIN Added :
                 LstAnnotated(Added[k], c[1], df_magic[c[2]])
            /\ \E k \in DOMAIN Added :
                 /\ IsMagic(Added[k], df_magic[c[2]])
                 /\ Added[k].obs_id_lst = <<ObsIdLst>>
                 /\ Added[k].event_id_lst = <<EventIdLst(c[1])>>
       /\ \A j \in DOMAIN df_magic :
            Partners(mask, j) = {} =>
              \A k \in DOMAIN Added :
                 IsMagic(Added[k], df_magic[j]) =>
                   /\ Added[k].obs_id_lst = NoValue
                   /\ Added[k].event_id_lst = NoValue]_vars

\* the merged table is concatenated, deduplicated and resolved
Merged ==
  pc \in {"stereo", "save_events", "save_features", "save_profiles",
          "save_subarray", "done"}

\* C8 as stated: in the merged table, after concatenation over all
\* processed telescopes, deduplication and identifier resolution, no two
\* rows share the same (resolved run, resolved event, telescope id).
C8_Original ==
  Merged =>
    \A k, n \in DOMAIN event_data :
       k # n => <<event_data[k].obs_id, event_data[k].event_id,
                  event_data[k].tel_id>>
                  # <<event_data[n].obs_id, event_data[n].event_id,
                      event_data[n].tel_id>>

\* the MAGIC-stereo events (rows of both MAGIC telescopes) whose rows lie in
\* the interval the pre-filter keeps
StereoInWindow ==
  {e \in {event_data_magic[k].event_id_magic : k \in DOMAIN event_data_magic} :
     /\ \A t \in {TelM1, TelM2} :
          \E k \in DOMAIN event_data_magic :
             /\ event_data_magic[k].event_id_magic = e
             /\ event_data_magic[k].tel_id = t
     /\ \A k \in DOMAIN event_data_magic :
          event_data_magic[k].event_id_magic = e =>
            InWindow(event_data_magic[k].ts, timestamps_lst, time_offsets,
                     window_half_width)}

\* C9 as stated: every MAGIC-stereo event whose rows fall inside the
\* pre-filter interval is present in the final merged table that is
\* written, coincident with an LST-1 event or not, whichever telescope
\* produced coincidences.
C9_Original ==
  pc = "done" =>
    \A e \in StereoInWindow :
       \E k \in DOMAIN event_data :
          /\ event_data[k].tel_id \in {TelM1, TelM2}
          /\ event_data[k].event_id_magic = e

\* the rows of the secondary (run, event) group of row k of the merged table
\* that carry primary identifiers
WithPrimary(k) ==
  {n \in DOMAIN event_data :
     /\ event_data[n].obs_id_magic = event_data[k].obs_id_magic
     /\ event_data[n].event_id_magic = event_data[k].event_id_magic
     /\ event_data[n].obs_id_lst # NoValue}

\* the sum of a column of primary identifiers over the rows S
SumOf(S, col) ==
  SumSet(S, [n \in DOMAIN event_data |->
               IF n \in S THEN event_data[n][col][1] ELSE 0])

\* the resolved key of row k as a fraction: a float before line 362, an
\* integer in the table that is written
KeyOf(k, col) ==
  IF pc = "stereo" THEN event_data[k][col] ELSE <<event_data[k][col], 1>>

\* the key q is exactly the mean of the column col over the rows S
IsMean(q, S, col) == q[1] * Cardinality(S) = SumOf(S, col) * q[2]

\* the key q is the mean of the column col over the rows S, truncated
IsTruncatedMean(q, S, col) ==
  /\ q[2] = 1
  /\ q[1] * Cardinality(S) <= SumOf(S, col)
  /\ SumOf(S, col) < (q[1] + 1) * Cardinality(S)

IsMagicPair(k) ==
  /\ KeyOf(k, "obs_id") = <<event_data[k].obs_id_magic, 1>>
  /\ KeyOf(k, "event_id") = <<event_data[k].event_id_magic, 1>>

Survives(k) ==
  /\ FirstLst + offset_start - window_half_width <= event_data_magic[k].ts
  /\ event_data_magic[k].ts <= LastLst + Max(Grid) + window_half_width

\* the MAGIC event at position k is coincident with some LST-1 event at
\* some candidate offset
CoincidentSomewhere(k) ==
  \E i \in DOMAIN timestamps_lst : \E o \in Grid :
     AbsDiff(event_data_magic[k].ts, timestamps_lst[i] + o) <= window_half_width

\* the telescope tel is skipped: none of its events survives the
\* pre-filter, or none of the survivors is coincident at any offset
Skipped(tel) ==
  \A k \in DOMAIN event_data_magic :
     (event_data_magic[k].tel_id = tel /\ Survives(k)) => ~CoincidentSomewhere(k)

AllSkipped == \A tel \in {TelM1, TelM2} : Skipped(tel)

\* C11: when every MAGIC telescope has no event surviving the pre-filter or
\* no coincidence at any candidate offset, the run never raises, never
\* merges a row, never writes anything, and at the end of the loop the only
\* step left is the normal exit.
C11_CleanExit ==
  (pc # "load" /\ input_files # <<>> /\ AllSkipped) =>
    /\ pc \in {"loop", "scan", "scanned", "exit"}
    /\ event_data = <<>>
    /\ features = <<>>
    /\ profiles = <<>>
    /\ output = <<>>

\* C11 witness: the run has exited after one telescope was skipped by the
\* pre-filter and the other by the scan
C11_Witness ==
  /\ pc = "exit"
  /\ AllSkipped
  /\ \E k \in DOMAIN event_data_magic : Survives(k)
  /\ \E tel \in {TelM1, TelM2} :
       /\ \E k \in DOMAIN event_data_magic : event_data_magic[k].tel_id = tel
       /\ \A k \in DOMAIN event_data_magic :
            event_data_magic[k].tel_id = tel => ~Survives(k)

\* what the run has accumulated over the telescopes done so far
Accumulated == <<event_data, features, profiles, output>>

\* C12: a telescope with no event surviving the pre-filter, or with a zero
\* count at every candidate offset, is skipped without error: neither the
\* pre-filter, nor the scan, nor the skip changes the merged table, the
\* feature summary, the scan profile or the output, and the skip returns to
\* the head of the loop with the remaining telescopes.
C12_Skip ==
  [][/\ (/\ pc = "loop"
         /\ tel_queue # <<>>
         /\ \A k \in DOMAIN event_data_magic :
               event_data_magic[k].tel_id = Head(tel_queue) => ~Survives(k))
        => /\ pc' = "loop"
           /\ tel_queue' = Tail(tel_queue)
           /\ Accumulated' = Accumulated
     /\ (pc = "loop" /\ tel_queue # <<>> /\ Skipped(Head(tel_queue)))
        => /\ pc' \in {"loop", "scan"}
           /\ tel_queue' = Tail(tel_queue)
           /\ Accumulated' = Accumulated
     /\ (pc = "scan" /\ Skipped(tel_id))
        => /\ pc' = "scanned"
           /\ Accumulated' = Accumulated
           /\ tel_queue' = tel_queue
     /\ (pc = "scanned" /\ Skipped(tel_id))
        => /\ pc' = "loop"
           /\ Accumulated' = Accumulated
           /\ tel_queue' = tel_queue]_vars

\* C12 witness: MAGIC-II has just been skipped after its scan, with the
\* rows, the feature and the profile of MAGIC-I accumulated
C12_Witness ==
  /\ pc = "loop"
  /\ tel_id = TelM2
  /\ tel_queue = <<>>
  /\ Skipped(TelM2)
  /\ \E k \in DOMAIN event_data_magic :
       event_data_magic[k].tel_id = TelM2 /\ Survives(k)
  /\ event_data # <<>>
  /\ Len(features) = 1
  /\ Len(profiles) = 1

\* C13: when the MAGIC input directory holds no matching data file the
\* loader raises at once: no MAGIC table is loaded, no telescope is
\* processed, nothing is merged and nothing is written; the run is at the
\* loader or has ended with the error.
C13_NoFile ==
  input_files = <<>> =>
    /\ pc \in {"load", "crashed"}
    /\ event_data_magic = <<>>
    /\ tel_queue = <<>>
    /\ tel_id = 0
    /\ event_data = <<>>
    /\ features = <<>>
    /\ profiles = <<>>
    /\ output = <<>>

\* C13 witness: the run has ended with the error of the loader
C13_Witness ==
  /\ input_files = <<>>
  /\ pc = "crashed"

\* the run was given the streams and the configuration of the wide scan
EndToEnd ==
  /\ \E T \in EndToEndT :
       /\ timestamps_lst = <<T, T + 100000, T + 200000>>
       /\ input_files = << [j \in 1..3 |->
                              [event_id_magic |-> j, tel_id |-> TelM1,
                               ts |-> T - 6500 + (j - 1) * 100000]] >>
  /\ offset_start = -10000
  /\ offset_stop = 10000
  /\ window_half_width = 300

\* C14: with LST-1 timestamps [T, T + 100000, T + 200000] ns, one MAGIC
\* telescope with timestamps 6500 ns earlier, a scan over [-10000, 10000) ns
\* in steps of 100 ns and a half width of 300 ns, the telescope is not
\* skipped, the offset at max is within 100 ns of -6500 ns and the
\* definitive mask has exactly 3 coincidences, which the feature summary
\* reports.
C14_EndToEnd ==
  EndToEnd =>
    /\ pc \notin {"crashed", "exit"}
    /\ pc = "scanned" => \E k \in DOMAIN n_coincidences : n_coincidences[k] # 0
    /\ pc \in {"refine", "check", "assemble"} =>
         /\ offset_at_max[1] + 6500 * offset_at_max[2] <= 100 * offset_at_max[2]
         /\ offset_at_max[1] + 6500 * offset_at_max[2] >= -100 * offset_at_max[2]
    /\ pc = "assemble" => Cardinality(mask) = 3
    /\ pc = "done" => /\ Len(features) = 1
                      /\ features[1].n_coincidence = 3

\* C14 witness: the definitive mask of the wide scan has been computed and
\* pairs each LST-1 event with the MAGIC event 6500 ns before it
C14_Witness ==
  /\ EndToEnd
  /\ pc = "assemble"
  /\ mask = {<<1, 1>>, <<2, 2>>, <<3, 3>>}

\* the call of the function fn has returned
Returned(fn) == pc = "returned" /\ arg.fn = fn /\ ~ret.raised

\* the nanoseconds the fractional digits frac of a number of seconds stand
\* for: the k-th digit counts 10^(9-k) ns
FracNanoseconds(frac) ==
  SumSet(DOMAIN frac, [k \in DOMAIN frac |-> frac[k] * Pow10(9 - k)])

\* C15: the nanosecond timestamp of an LST-1 event whose time in seconds is
\* written with up to 7 fractional digits is exactly that decimal number
\* times 10^9, and the one of a MAGIC event given as (seconds, nanoseconds)
\* is seconds * 10^9 + nanoseconds.
C15_ExactTimestamps ==
  /\ Returned("timestamps_lst") =>
       ret.value = arg.int[1] * 1000000000 + FracNanoseconds(arg.frac)
  /\ Returned("timestamps_magic") =>
       ret.value = arg.sec * 1000000000 + arg.nsec

\* C15 witness: a time with 7 fractional digits and a last digit of 100 ns
\* has been converted
C15_Witness ==
  /\ Returned("timestamps_lst")
  /\ Len(arg.frac) = 7
  /\ arg.frac[7] # 0
  /\ arg.int[1] # 0
  /\ ret.value % 1000 = 700

\* the rows of the file that are subarray events with all image parameters
Candidates == {k \in DOMAIN arg.rows : arg.rows[k].subarray /\ arg.rows[k].complete}

\* the number of candidates with the event id of row k
Copies(k) ==
  Cardinality({n \in Candidates : arg.rows[n].event_id = arg.rows[k].event_id})

\* C16: load_lst_data_file returns, without raising, exactly the events
\* whose event id occurs once among the events that reach the check: every
\* copy of an id that occurs more than once is excluded, a warning is logged
\* iff there is such an id, and no event id occurs twice in the table
\* returned.
C16_Duplicates ==
  pc = "returned" /\ arg.fn = "load_lst_data_file" =>
    LET out == ret.value.event_data
    IN  /\ ~ret.raised
        /\ {out[k].row : k \in DOMAIN out} = {k \in Candidates : Copies(k) = 1}
        /\ \A k, n \in DOMAIN out : k # n => out[k].event_id # out[n].event_id
        /\ ret.value.warned <=> \E k \in Candidates : Copies(k) > 1

\* C16 witness: a file with two copies of one event id and one event with
\* another id has been loaded: the single event alone is returned
C16_Witness ==
  /\ Returned("load_lst_data_file")
  /\ \E k \in Candidates : Copies(k) = 2
  /\ \E k \in Candidates : Copies(k) = 1
  /\ Len(ret.value.event_data) = 1
  /\ ret.value.warned

\* the telescope ids of the rows of the input table that share the
\* (obs_id, event_id) key of row k
TelsOfKey(k) ==
  {arg.event_data[n].tel_id :
     n \in {m \in DOMAIN arg.event_data :
              /\ arg.event_data[m].obs_id = arg.event_data[k].obs_id
              /\ arg.event_data[m].event_id = arg.event_data[k].event_id}}

\* C17 as stated: get_stereo_events returns exactly the rows of the input
\* whose (run, event) key is shared by 2 or 3 distinct telescope ids, each
\* with that number as its multiplicity.
C17_Original ==
  Returned("get_stereo_events") =>
    /\ {ret.value[k].row : k \in DOMAIN ret.value}
         = {k \in DOMAIN arg.event_data : Cardinality(TelsOfKey(k)) \in {2, 3}}
    /\ \A k \in DOMAIN ret.value :
         ret.value[k].multiplicity = Cardinality(TelsOfKey(ret.value[k].row))

\* the rows of the feature summary for the telescope tel
FeatureRows(tel) ==
  {n \in DOMAIN features : features[n].coincidence_id = 10 + tel}

\* the events of the telescope tel that survive the pre-filter
Survivors(tel) ==
  {k \in DOMAIN event_data_magic :
     event_data_magic[k].tel_id = tel /\ Survives(k)}

\* C18: the feature summary gets its rows at the end of the iteration of a
\* telescope and nowhere else; the row holds the refined offset of that
\* telescope, the number of True cells of its definitive mask (the pairs
\* coincident at the refined offset) and the number of its events that
\* survived the pre-filter; when the loop has ended the summary has exactly
\* one row per telescope that was not skipped and none for the others.
C18_FeatureSummary ==
  [][/\ pc = "assemble" =>
          /\ Len(features') = Len(features) + 1
          /\ SubSeq(features', 1, Len(features)) = features
          /\ LET row == features'[Len(features')]
             IN  /\ row.coincidence_id = 10 + tel_id
                 /\ row.average_offset = average_offset
                 /\ IsWeightedMean(row.average_offset, RoundedRegion)
                 /\ row.n_coincidence
                      = Cardinality({c \in Pairs : Near(c, average_offset)})
                 /\ row.n_coincidence = Cardinality(mask)
                 /\ row.n_events_magic = Cardinality(Survivors(tel_id))
     /\ pc # "assemble" => features' = features
     /\ (pc' = "loop" /\ tel_queue' = <<>>) =>
          \A tel \in {TelM1, TelM2} :
             Cardinality({n \in DOMAIN features' :
                            features'[n].coincidence_id = 10 + tel})
               = IF Skipped(tel) THEN 0 ELSE 1]_vars

\* C18 witness: the loop has ended with MAGIC-II skipped after its scan and
\* one row for MAGIC-I, whose number of coincidences is not its number of
\* surviving events
C18_Witness ==
  /\ pc = "loop"
  /\ tel_queue = <<>>
  /\ Survivors(TelM2) # {}
  /\ Skipped(TelM2)
  /\ FeatureRows(TelM2) = {}
  /\ \E n \in FeatureRows(TelM1) :
       /\ features[n].n_coincidence >= 1
       /\ features[n].n_coincidence # features[n].n_events_magic

\* the call of a DL2 loader has ended, by a return or by an exception
LoaderEnded ==
  /\ pc = "returned"
  /\ arg.fn \in {"load_mc_dl2_data_file", "load_dl2_data_file"}

McLoaderRejects ==
  (Returned("load_mc_dl2_data_file")) => arg.irf_type \in IrfTypes

\* load_dl2_data_file returns for an unrecognised irf_type the table it
\* returns for "hardware"
DataLoaderFallsThrough ==
  /\ Returned("load_dl2_data_file")
  /\ arg.irf_type \notin IrfTypes
  /\ ret.value = Dl2Mean(Annotated(arg.event_data, StereoKeep(arg.event_data), 1))
  /\ \A a, b \in DOMAIN arg.event_data :
        a # b => arg.event_data[a] # arg.event_data[b]

\* the output file of a complete run
Written ==
  <<[table |-> "events", mode |-> "w"], [table |-> "feature", mode |-> "a"],
    [table |-> "profile", mode |-> "a"], [table |-> "subarray", mode |-> "a"]>>

\* the loop over the MAGIC telescopes has ended and the run goes on
AfterLoop ==
  /\ tel_queue = <<>>
  /\ pc \in {"resolve", "stereo", "save_events", "save_features", "save_profiles",
             "save_subarray", "done"}

\* C20: nothing is written while the loop over the MAGIC telescopes runs;
\* what is written after it is the merged event table first, with mode "w",
\* then the feature summary, the scan profile and the subarray description,
\* added in that order, each once: the file always holds a leading part of
\* that list, and all of it when the run is done.
C20_OutputOrder ==
  /\ Len(output) <= Len(Written)
  /\ output = SubSeq(Written, 1, Len(output))
  /\ output # <<>> => AfterLoop /\ pc \notin {"resolve", "stereo", "save_events"}
  /\ pc = "save_features" => Len(output) = 1
  /\ pc = "save_profiles" => Len(output) = 2
  /\ pc = "save_subarray" => Len(output) = 3
  /\ pc = "done" => output = Written

\* C20 witness: a complete run over both MAGIC telescopes, each with a row
\* in the feature summary, has written the four tables
C20_Witness ==
  /\ pc = "done"
  /\ Len(features) = 2
  /\ Len(output) = 4
  /\ output[1].table = "events"

\* the two tables carry their time columns when the exclusion starts: the
\* LST-1 table its timestamp (after the renaming), the MAGIC table time_sec
\* and time_nanosec
TimeColumnsPresent ==
  /\ "timestamp" \in ret.value.renamed_lst
  /\ {"time_sec", "time_nanosec"} \subseteq arg.columns_magic

\* C21 as stated: after the exclusion the LST-1 table has exactly the
\* columns of both tables plus its timestamp, the MAGIC table exactly the
\* columns of both tables plus time_sec and time_nanosec, and a column that
\* was removed from one table is not a column of the other.
C21_Original ==
  (Returned("exclude_non_common") /\ TimeColumnsPresent) =>
    LET lst == ret.value.renamed_lst
        magic == arg.columns_magic
    IN  /\ ret.value.event_data_lst = (lst \cap magic) \cup {"timestamp"}
        /\ ret.value.event_data_magic
             = (lst \cap magic) \cup {"time_sec", "time_nanosec"}
        /\ \A c \in lst \ ret.value.event_data_lst : c \notin magic
        /\ \A c \in magic \ ret.value.event_data_magic : c \notin lst

\* no time column of one table is a column of the other
TimeColumnsApart ==
  /\ "timestamp" \notin arg.columns_magic
  /\ {"time_sec", "time_nanosec"} \cap ret.value.renamed_lst = {}

\* what C21 says holds of tables that share no time column
ExcludeApart ==
  (Returned("exclude_non_common") /\ TimeColumnsPresent /\ TimeColumnsApart) =>
    /\ ret.value.event_data_lst
         = (ret.value.renamed_lst \cap arg.columns_magic) \cup {"timestamp"}
    /\ ret.value.event_data_magic
         = (ret.value.renamed_lst \cap arg.columns_magic)
             \cup {"time_sec", "time_nanosec"}

\* the number of pairs of an LST-1 event and an event of the current
\* telescope, pre-filtered or not, coincident at the offset o
UnfilteredCount(o) ==
  Cardinality({c \in (DOMAIN timestamps_lst) \X (DOMAIN event_data_magic) :
     /\ event_data_magic[c[2]].tel_id = tel_id
     /\ AbsDiff(event_data_magic[c[2]].ts, timestamps_lst[c[1]] + o)
          <= window_half_width})

\* C22 as stated: the pre-filter discards no event that is coincident with
\* an LST-1 event at a candidate offset or at the refined offset: each scan
\* count and the number of True cells of the definitive mask equal the
\* counts over all the events of the telescope, whatever the order of the
\* LST-1 timestamps.
C22_Original ==
  /\ pc = "scanned" =>
       \A k \in DOMAIN n_coincidences :
          n_coincidences[k] = UnfilteredCount(time_offsets[k])
  /\ pc = "assemble" => Cardinality(mask) = UnfilteredCount(average_offset)

\* the LST-1 timestamps are in time order
LstInTimeOrder ==
  \A i, j \in DOMAIN timestamps_lst : i <= j => timestamps_lst[i] <= timestamps_lst[j]

\* what C22 says holds of LST-1 timestamps in time order
PreFilterInTimeOrder == LstInTimeOrder => C22_Original

\* C23 as stated: when the scan of a telescope has found a coincidence at
\* some candidate offset, the neighbourhood [offset_at_max - 2 window,
\* offset_at_max + 2 window] holds a grid offset and the counts in it do not
\* sum to zero, with the limits as they are or rounded as the code rounds
\* them, so that the weighted mean is defined; the refined offset lies
\* between the first and the last grid offset.
C23_Original ==
  /\ pc = "refine" =>
       /\ ExactRegion # {}
       /\ SumSet(ExactRegion, n_coincidences) > 0
       /\ SumSet(RoundedRegion, n_coincidences) > 0
  /\ pc \in {"check", "assemble"} =>
       /\ time_offsets[1] <= average_offset
       /\ average_offset <= time_offsets[Len(time_offsets)]

\* the refined offset of a refinement that completes lies between the first
\* and the last grid offset
RefinedInGrid ==
  pc \in {"check", "assemble"} =>
    /\ time_offsets[1] <= average_offset
    /\ average_offset <= time_offsets[Len(time_offsets)]

\* the step is the deduplication of lines 333-334
DeduplicationStep == pc = "loop" /\ pc' = "resolve"

\* C24 as stated: every True cell (i, j) of a definitive mask gets a row of
\* LST-1 event i keyed by the ids of MAGIC event j in the merged table, and
\* the deduplication removes a row only when a row with the same index key
\* and the same content remains, so that the row of each True cell is
\* still in the table after it, also when event i is coincident with MAGIC
\* events of different ids.
C24_Original ==
  [][/\ pc = "assemble" =>
          \A c \in mask : \E k \in DOMAIN Added :
             LstAnnotated(Added[k], c[1], df_magic[c[2]])
     /\ DeduplicationStep =>
          \A k \in DOMAIN event_data : \E n \in DOMAIN event_data' :
             event_data'[n] = event_data[k]]_vars

\* the deduplication removes a row only when a row with the same columns
\* remains, whatever its index key
DeduplicationByColumns ==
  [][DeduplicationStep =>
       \A k \in DOMAIN event_data : \E n \in DOMAIN event_data' :
          Columns(event_data'[n]) = Columns(event_data[k])]_vars

\* the resolved key of row k is the (obs_id, event_id) pair of the LST-1
\* event i
HasKeyOfLst(k, i) ==
  /\ KeyOf(k, "obs_id") = <<ObsIdLst, 1>>
  /\ KeyOf(k, "event_id") = <<EventIdLst(i), 1>>

\* C25 as stated: in the merged table every resolved key taken from LST-1
\* identifiers is the (obs_id, event_id) pair of one LST-1 event whose ids
\* a row of the MAGIC (run, event) group carries, i.e. of an LST-1 event
\* coincident with a MAGIC event of the group, also when several LST-1
\* events are coincident with one MAGIC event.
C25_Original ==
  Merged =>
    \A k \in DOMAIN event_data :
       WithPrimary(k) # {} =>
         \E i \in DOMAIN timestamps_lst :
            /\ HasKeyOfLst(k, i)
            /\ \E n \in WithPrimary(k) :
                 event_data[n].event_id_lst = <<EventIdLst(i)>>

\* the table written holds a key taken from LST-1 identifiers that is the
\* event_id of no LST-1 event
KeyOfNoEvent ==
  /\ pc = "done"
  /\ \E k \in DOMAIN event_data :
       /\ WithPrimary(k) # {}
       /\ \A i \in DOMAIN timestamps_lst : event_data[k].event_id # EventIdLst(i)

\* the loop over the MAGIC telescopes has ended without an exception
LoopEnded == pc = "exit" \/ AfterLoop

\* no telescope that was processed has a coincidence at its refined offset
NoCoincidenceAtRefined ==
  \A n \in DOMAIN features : features[n].n_coincidence = 0

\* C26 as stated: when something has been written, some telescope has a
\* coincidence at its refined offset and the merged table holds an LST-1
\* row; a run in which no processed telescope has a coincidence at its
\* refined offset ends with the exit of lines 329-331 and writes nothing.
C26_Original ==
  /\ output # <<>> =>
       /\ ~NoCoincidenceAtRefined
       /\ \E k \in DOMAIN event_data : event_data[k].tel_id = TelLst
  /\ (LoopEnded /\ NoCoincidenceAtRefined) => (pc = "exit" /\ output = <<>>)

\* a complete run has written a table without any LST-1 row, no telescope
\* having a coincidence at its refined offset
WrittenWithoutLst ==
  /\ pc = "done"
  /\ features # <<>>
  /\ NoCoincidenceAtRefined
  /\ \A k \in DOMAIN event_data : event_data[k].tel_id # TelLst

====
